---- MODULE Spec2Model ----
(***************************************************************************)
(* BaseEVMExternalStateProvider (packages/bitcore-node): the pooled RPC    *)
(* connection manager getWeb3, the block range resolver getBlocksParams,   *)
(* the batched block fetch getBlocks, the transaction lookup               *)
(* getTransaction, the fee estimate getFee and the address-history         *)
(* streams, as state machines.                                             *)
(*                                                                         *)
(* JavaScript runs one continuation at a time: an action of this module    *)
(* is the code that runs between two suspension points (await) of one      *)
(* call, so two calls interleave exactly at their awaits.                  *)
(***************************************************************************)
EXTENDS Integers, Sequences, FiniteSets, TLC

VARIABLES
    rpcs,      \* BaseEVMStateProvider.rpcs[chain][network]: sequence of handle ids
    rpcs0,     \* history: the list as it was before any call started
    handles,   \* handle id -> [dataType, health, reconn]
    calls,     \* caller -> the position and locals of its getWeb3 call
    removed,   \* history: the last splice a catch block executed
    req,       \* the params of the getBlocksParams call under study
    env,       \* what the external lookups of that call returned
    res,       \* what that call returned or threw
    head,      \* the height of the latest block of the chain
    fetch,     \* the getBlocks or getTransaction call under study
    fee,       \* the getFee call under study
    stream     \* the stream*Transactions call under study

poolVars == <<rpcs, rpcs0, handles, calls, removed>>
rangeVars == <<req, env, res>>
fetchVars == <<head, fetch>>
feeVars == <<fee>>
streamVars == <<stream>>

vars == <<poolVars, rangeVars, fetchVars, feeVars, streamVars>>

(***************************************************************************)
(* Bounds                                                                  *)
(***************************************************************************)
NumCallers == 2
MaxInitPool == 2
MaxIdLen == 2
MaxHeight == 3
MaxLimit == 1
MaxHead == 3

Callers == 1..NumCallers

(***************************************************************************)
(* Handles                                                                 *)
(***************************************************************************)
DataTypes == {"historical", "combined", "node"}
RequestTypes == {"historical", "node"}

\* What the provider behind a handle does when probed: "up" answers
\* getBlockNumber, "down" rejects it, "hang" never settles it. A connection
\* made during the calls under study has not been probed yet: "any" may do
\* each of the three, and may or may not reconnect.
Health == {"up", "down", "hang", "any"}

\* The handles a registry holds before the calls under study. reconn:
\* currentProvider has a disconnect function and reports connected after
\* disconnect() / connect().
HandleKinds ==
    {k \in [dataType : DataTypes, health : Health \ {"any"}, reconn : BOOLEAN] :
        k.health = "up" => ~k.reconn}

Answers(h) == handles[h].health \in {"up", "any"}
Rejects(h) == handles[h].health \in {"down", "any"}
Hangs(h) == handles[h].health \in {"hang", "any"}
Reconnects(h) ==
    IF handles[h].health = "any" THEN BOOLEAN ELSE {handles[h].reconn}

\* A request type is served by a handle of the same tag or of tag combined.
IsValidProviderType(type, dataType) ==
    dataType = "combined" \/ dataType = type

SeqRange(s) == {s[k] : k \in 1..Len(s)}

\* Array.prototype.indexOf: 0-based index of the first occurrence, -1 if none.
IndexOf(list, h) ==
    IF h \in SeqRange(list)
    THEN (CHOOSE k \in 1..Len(list) :
             list[k] = h /\ \A m \in 1..(k - 1) : list[m] # h) - 1
    ELSE -1

\* The start index Array.prototype.splice derives from its first argument: a
\* negative one counts from the end of the array.
SpliceStart(list, idx) ==
    IF idx < 0
    THEN (IF Len(list) + idx < 0 THEN 0 ELSE Len(list) + idx)
    ELSE (IF idx > Len(list) THEN Len(list) ELSE idx)

\* list.splice(idx, 1): the list without the element at the start index.
Splice1(list, idx) ==
    LET s == SpliceStart(list, idx)
    IN  IF s >= Len(list) THEN list
        ELSE SubSeq(list, 1, s) \o SubSeq(list, s + 2, Len(list))

\* The element list.splice(idx, 1) deletes, 0 when it deletes none.
Spliced(list, idx) ==
    LET s == SpliceStart(list, idx)
    IN  IF s >= Len(list) THEN 0 ELSE list[s + 1]

\* The array iterator of the for-of loop, at 0-based position i, skipping the
\* handles the request type does not accept: the position of the next handle
\* to probe, -1 when the iterator is exhausted.
\* An iterator that finds no registered handle to probe.
NoCandidate(list, i, type) == 0 - 1

RECURSIVE NextCandidate(_, _, _)
NextCandidate(list, i, type) ==
    IF i >= Len(list) THEN -1
    ELSE IF IsValidProviderType(type, handles[list[i + 1]].dataType) THEN i
    ELSE NextCandidate(list, i + 1, type)

IdleCall == [pc |-> "idle", type |-> "historical", i |-> 0, cur |-> 0, ret |-> 0]

\* No splice yet.
NoSplice == [probed |-> 0, gone |-> 0]

RECURSIVE SeqsOver(_, _)
SeqsOver(S, n) ==
    IF n = 0 THEN {<<>>}
    ELSE LET shorter == SeqsOver(S, n - 1)
         IN  shorter \cup {Append(s, x) : s \in {t \in shorter : Len(t) = n - 1}, x \in S}

\* No getBlocksParams call is under study.
NoReq == [hasChainNet |-> FALSE, blockId |-> <<>>, sinceBlock |-> <<>>,
          dateSel |-> "none", hasLimit |-> FALSE, limit |-> 0, sort |-> "heightDesc"]
NoEnv == [startNum |-> 0, endNum |-> 0, hashNum |-> 0, tipHeight |-> 0]
NoRes == [state |-> "none", startBlock |-> 0, endBlock |-> 0]

RangeIdle == req = NoReq /\ env = NoEnv /\ res = NoRes

\* No getBlocks or getTransaction call is under study.
NoFetch == [op |-> "none", pc |-> "idle", txIdOk |-> FALSE, tipHeight |-> 0,
            requested |-> <<>>, transformed |-> <<>>, ret |-> <<>>,
            outcome |-> "none", logged |-> FALSE]

FetchIdle == head = 0 /\ fetch = NoFetch

\* No getFee call is under study.
NoFee == [pc |-> "idle", target |-> 0, hasTarget |-> FALSE,
          baseFeePerGas |-> <<>>, reward |-> <<>>, gasPrices |-> <<>>,
          whichQuartile |-> 0, outcome |-> "none", feerate |-> 0, blocks |-> 0]

FeeIdle == fee = NoFee

\* No stream call is under study.
NoStream == [op |-> "none", pc |-> "idle", hasWallet |-> FALSE,
             hasToken |-> FALSE, tipHeight |-> 0, sources |-> <<>>,
             opened |-> <<>>, merged |-> <<>>, parsed |-> <<>>,
             populated |-> <<>>, output |-> <<>>, flushed |-> <<>>,
             failed |-> FALSE, logged |-> FALSE, outcome |-> "none"]

StreamIdle == stream = NoStream

\* The registry before the calls under study: up to MaxInitPool handles left
\* by earlier calls, in any state of health.
PoolInitOver(kinds) ==
    /\ handles \in SeqsOver(kinds, MaxInitPool)
    /\ rpcs = [k \in 1..Len(handles) |-> k]
    /\ rpcs0 = rpcs
    /\ calls = [c \in Callers |-> IdleCall]
    /\ removed = NoSplice
    /\ RangeIdle
    /\ FetchIdle
    /\ FeeIdle
    /\ StreamIdle

PoolInit == PoolInitOver(HandleKinds)

\* The registries the liveness of getWeb3 is checked from: every registered
\* handle accepts every request type, so that every call probes each of them.
PoolLiveInit == PoolInitOver({k \in HandleKinds : k.dataType = "combined"})

(***************************************************************************)
(* getWeb3                                                                 *)
(***************************************************************************)
\* Lines 150-164: no candidate is left; make a new connection, push it and
\* return it, or throw when the provider cannot be built.
NewConnection(c, list, call) ==
    \/ \E dataType \in {call.type, "combined"} :
          /\ handles' = Append(handles,
                [dataType |-> dataType, health |-> "any", reconn |-> FALSE])
          /\ rpcs' = Append(list, Len(handles) + 1)
          /\ calls' = [calls EXCEPT ![c] =
                [call EXCEPT !.pc = "done", !.ret = Len(handles) + 1, !.cur = 0]]
    \/ /\ handles' = handles
       /\ rpcs' = list
       /\ calls' = [calls EXCEPT ![c] =
                [call EXCEPT !.pc = "failed", !.ret = 0, !.cur = 0]]

\* The loop from the iterator position of the call up to the next await
\* (line 131) or, when the iterator is exhausted, through lines 150-164.
Advance(c, list, call) ==
    LET j == NextCandidate(list, call.i, call.type)
    IN  IF j >= 0
        THEN /\ calls' = [calls EXCEPT ![c] =
                    [call EXCEPT !.pc = "probe", !.cur = list[j + 1], !.i = j + 1]]
             /\ rpcs' = list
             /\ handles' = handles
        ELSE NewConnection(c, list, call)

\* Line 124: the call starts and runs to its first await. Callers are
\* interchangeable: they are numbered in the order in which they call.
GetWeb3(c) ==
    /\ calls[c].pc = "idle"
    /\ \A d \in Callers : d < c => calls[d].pc # "idle"
    /\ \E type \in RequestTypes :
          Advance(c, rpcs, [calls[c] EXCEPT !.type = type, !.i = 0])
    /\ UNCHANGED <<rpcs0, removed>>

\* Line 135: the probe answered before the timer.
ProbeResolves(c) ==
    /\ calls[c].pc = "probe"
    /\ Answers(calls[c].cur)
    /\ calls' = [calls EXCEPT ![c] =
            [calls[c] EXCEPT !.pc = "done", !.ret = calls[c].cur]]
    /\ UNCHANGED <<rpcs, rpcs0, handles, removed>>

\* Lines 136-147: the catch block, then the loop up to the next await.
Catch(c, call) ==
    LET h == call.cur
    IN  \E connected \in Reconnects(h) :
          IF connected
          THEN /\ calls' = [calls EXCEPT ![c] = [call EXCEPT !.pc = "done", !.ret = h]]
               /\ UNCHANGED <<rpcs, rpcs0, handles, removed>>
          ELSE LET idx == IndexOf(rpcs, h)
               IN  /\ removed' = [probed |-> h, gone |-> Spliced(rpcs, idx)]
                   /\ Advance(c, Splice1(rpcs, idx), call)
                   /\ UNCHANGED rpcs0

\* Line 132: the probe rejected.
ProbeRejects(c) ==
    /\ calls[c].pc = "probe"
    /\ Rejects(calls[c].cur)
    /\ Catch(c, calls[c])

\* A race without its timer: a pending probe is never rejected.
TimerNever(h) == FALSE

\* Line 133: the 5000 ms timer rejects the race; the probe is still pending.
TimerFires(h) == Hangs(h)

ProbeTimesOut(c) ==
    /\ calls[c].pc = "probe"
    /\ TimerFires(calls[c].cur)
    /\ Catch(c, calls[c])

\* Line 131: the race of the call settles, one way or another.
RaceSettles(c) ==
    \/ ProbeResolves(c)
    \/ ProbeRejects(c)
    \/ ProbeTimesOut(c)

PoolNext ==
    /\ \E c \in Callers :
          \/ GetWeb3(c)
          \/ RaceSettles(c)
    /\ UNCHANGED <<rangeVars, fetchVars, feeVars, streamVars>>

PoolSpec == PoolInit /\ [][PoolNext]_vars

\* The event loop runs every settled promise's continuation and every expired
\* timer's callback.
PoolLiveSpec ==
    /\ PoolLiveInit /\ [][PoolNext]_vars
    /\ \A c \in Callers : WF_poolVars(RaceSettles(c))

(***************************************************************************)
(* Strings and numbers of getBlocksParams                                  *)
(***************************************************************************)
\* A string is the sequence of its characters; the empty string and an absent
\* parameter are both falsy and take the same branches (lines 411, 436).
DigitChars == <<"0", "1", "2", "3", "4", "5", "6", "7", "8", "9">>
IsDigit(ch) == \E d \in 1..10 : DigitChars[d] = ch
DigitVal(ch) == (CHOOSE d \in 1..10 : DigitChars[d] = ch) - 1

NaN == [nan |-> TRUE, val |-> 0]
Num(n) == [nan |-> FALSE, val |-> n]

\* The length of the longest prefix of s made of decimal digits.
RECURSIVE DigitPrefix(_)
DigitPrefix(s) ==
    IF s = <<>> \/ ~IsDigit(Head(s)) THEN 0 ELSE 1 + DigitPrefix(Tail(s))

\* The value of a sequence of decimal digits.
RECURSIVE DigitsValue(_)
DigitsValue(s) ==
    IF s = <<>> THEN 0
    ELSE 10 * DigitsValue(SubSeq(s, 1, Len(s) - 1)) + DigitVal(s[Len(s)])

RECURSIVE TrimLeft(_)
TrimLeft(s) == IF s # <<>> /\ Head(s) = " " THEN TrimLeft(Tail(s)) ELSE s

RECURSIVE TrimRight(_)
TrimRight(s) ==
    IF s # <<>> /\ s[Len(s)] = " " THEN TrimRight(SubSeq(s, 1, Len(s) - 1)) ELSE s

\* parseInt(s, 10): leading white space and one sign are skipped, the digits
\* that follow are the value and whatever follows them is ignored.
ParseInt(s) ==
    LET t == TrimLeft(s)
        signed == t # <<>> /\ Head(t) \in {"-", "+"}
        body == IF signed THEN Tail(t) ELSE t
        n == DigitPrefix(body)
        v == DigitsValue(SubSeq(body, 1, n))
    IN  IF n = 0 THEN NaN
        ELSE IF signed /\ Head(t) = "-" THEN Num(0 - v) ELSE Num(v)

\* Number(s) for strings over Alphabet: the whole trimmed string is an
\* optionally signed run of digits, or the result is NaN; "" is 0.
NumberOf(s) ==
    LET t == TrimRight(TrimLeft(s))
        signed == t # <<>> /\ Head(t) \in {"-", "+"}
        body == IF signed THEN Tail(t) ELSE t
        v == DigitsValue(body)
    IN  IF t = <<>> THEN Num(0)
        ELSE IF body = <<>> \/ DigitPrefix(body) # Len(body) THEN NaN
        ELSE IF signed /\ Head(t) = "-" THEN Num(0 - v) ELSE Num(v)

\* Number.prototype.toString(10) of an integer.
RECURSIVE Decimal(_)
Decimal(n) ==
    IF n < 10 THEN <<DigitChars[n + 1]>>
    ELSE Decimal(n \div 10) \o <<DigitChars[(n % 10) + 1]>>

ToString10(n) == IF n < 0 THEN <<"-">> \o Decimal(0 - n) ELSE Decimal(n)

(***************************************************************************)
(* getBlocksParams                                                         *)
(***************************************************************************)
HashLen == 64
DefaultLimit == 10

Alphabet == {"0", "1", "a", "-", " "}
Strings == SeqsOver(Alphabet, MaxIdLen)
AHash == [k \in 1..HashLen |-> "a"]

\* The identifiers of the specification's examples, "007" and "12a".
ExampleIds == {<<"0", "0", "7">>, <<"1", "2", "a">>}
BlockIds == Strings \cup ExampleIds \cup {AHash}
SinceBlocks == {<<>>, <<"0">>, <<"1">>, <<"0", "1">>, <<"1", "a">>, <<"-", "1">>}

\* args.sort: the default object { height: -1 }, the number -1, the number 1.
Sorts == {"heightDesc", "minusOne", "one"}

\* args.date, args.startDate, args.endDate: which of them the caller gave.
DateSels == {"none", "date", "start", "end", "range"}

Limits == (0 - 1)..MaxLimit
Heights == 0..MaxHeight

Requests ==
    [hasChainNet : {TRUE}, blockId : BlockIds, sinceBlock : SinceBlocks,
     dateSel : DateSels, hasLimit : {TRUE}, limit : Limits, sort : Sorts]
    \cup
    [hasChainNet : {TRUE}, blockId : BlockIds, sinceBlock : SinceBlocks,
     dateSel : DateSels, hasLimit : {FALSE}, limit : {0}, sort : Sorts]
    \cup
    [hasChainNet : {FALSE}, blockId : {<<>>}, sinceBlock : {<<>>},
     dateSel : {"none"}, hasLimit : {FALSE}, limit : {0}, sort : {"heightDesc"}]

Thrown(msg) == [state |-> msg, startBlock |-> 0, endBlock |-> 0]
Range(s, e) == [state |-> "ok", startBlock |-> s, endBlock |-> e]

\* Line 405: let { limit = 10 } = args.
LimitOf(p) == IF p.hasLimit THEN p.limit ELSE DefaultLimit

\* Lines 411-421: the block id is a hash, or a height that prints back as
\* itself.
IsHashId(p) == p.blockId # <<>> /\ Len(p.blockId) >= HashLen
IsHeightId(p) == p.blockId # <<>> /\ Len(p.blockId) < HashLen
BlockIdInvalid(p) ==
    /\ IsHeightId(p)
    /\ \/ ParseInt(p.blockId).nan
       \/ ToString10(ParseInt(p.blockId).val) # p.blockId

\* Lines 436-440.
SinceGiven(p) == p.sinceBlock # <<>>
SinceInvalid(p) ==
    /\ SinceGiven(p)
    /\ \/ NumberOf(p.sinceBlock).nan
       \/ ToString10(NumberOf(p.sinceBlock).val) # p.sinceBlock

\* Lines 423-433: which date lookups the call makes.
UsesStartDate(p) == p.dateSel \in {"date", "start", "range"}
UsesEndDate(p) == p.dateSel \in {"date", "end", "range"}
\* Line 443: the height-by-hash lookup is made when no sinceBlock is given.
UsesHash(p) == IsHashId(p) /\ ~SinceGiven(p)

\* Lines 407-454: the bounds before the tip is consulted. e.startNum,
\* e.endNum and e.hashNum are what getBlockNumberByDate and
\* getBlockNumberByBlockId returned, 0 for undefined.
BoundsBeforeTip(p, e) ==
    IF ~p.hasChainNet THEN Thrown("Missing required chain and/or network param")
    ELSE IF BlockIdInvalid(p) THEN Thrown("invalid block id provided")
    ELSE IF SinceInvalid(p) THEN Thrown("invalid block id provided")
    ELSE IF UsesHash(p) /\ e.hashNum = 0 THEN Thrown("Could not get block")
    ELSE
      LET dateStart == IF UsesStartDate(p) THEN e.startNum ELSE 0
          dateEnd == IF UsesEndDate(p) THEN e.endNum ELSE 0
          since == NumberOf(p.sinceBlock).val
          start2 == IF SinceGiven(p) THEN since ELSE dateStart
          end2 == IF SinceGiven(p) THEN since + LimitOf(p) ELSE dateEnd
          height == IF UsesHash(p) THEN e.hashNum
                    ELSE IF IsHeightId(p) THEN ParseInt(p.blockId).val
                    ELSE 0
      IN  IF height # 0 THEN Range(height, height) ELSE Range(start2, end2)

\* Line 456.
NeedsTip(b) == b.state = "ok" /\ (b.startBlock = 0 \/ b.endBlock = 0)

\* Lines 456-462.
WithTip(b, tipHeight) ==
    IF ~NeedsTip(b) THEN b
    ELSE LET endBlock == IF b.endBlock # 0 THEN b.endBlock ELSE tipHeight
             startBlock == IF b.startBlock # 0 THEN b.startBlock ELSE endBlock - 1
         IN  Range(startBlock, endBlock)

\* A resolver that never clamps.
NoClamp(b, limit) == b

\* Lines 464-466.
ClampLimit(b, limit) ==
    IF b.state = "ok" /\ limit > 0 /\ (b.endBlock - b.startBlock) > limit
    THEN Range(b.startBlock, b.startBlock + limit)
    ELSE b

\* Lines 407-466: the range before the sort is applied.
AscendingRange(p, e) ==
    ClampLimit(WithTip(BoundsBeforeTip(p, e), e.tipHeight), LimitOf(p))

\* Lines 468-472.
SortSwap(b, sort) ==
    IF b.state = "ok" /\ sort = "minusOne"
    THEN Range(b.endBlock, b.startBlock)
    ELSE b

\* The lookups a call makes, each with any answer; a lookup that is not made
\* is recorded as 0.
Reaches423(p) == p.hasChainNet /\ ~BlockIdInvalid(p)
StartAnswers(p) == IF Reaches423(p) /\ UsesStartDate(p) THEN Heights ELSE {0}
EndAnswers(p) == IF Reaches423(p) /\ UsesEndDate(p) THEN Heights ELSE {0}
HashAnswers(p) ==
    IF Reaches423(p) /\ ~SinceInvalid(p) /\ UsesHash(p) THEN Heights ELSE {0}
TipAnswers(p, sn, en, hn) ==
    IF NeedsTip(BoundsBeforeTip(p,
            [startNum |-> sn, endNum |-> en, hashNum |-> hn, tipHeight |-> 0]))
    THEN Heights ELSE {0}

Envs(p) ==
    UNION {{[startNum |-> a[1], endNum |-> a[2], hashNum |-> a[3], tipHeight |-> t] :
                t \in TipAnswers(p, a[1], a[2], a[3])} :
            a \in StartAnswers(p) \X EndAnswers(p) \X HashAnswers(p)}

RangeInit ==
    /\ req \in Requests
    /\ env = NoEnv
    /\ res = NoRes
    /\ handles = <<>> /\ rpcs = <<>> /\ rpcs0 = <<>>
    /\ calls = [c \in Callers |-> IdleCall]
    /\ removed = NoSplice
    /\ FetchIdle
    /\ FeeIdle
    /\ StreamIdle

\* Lines 402-476.
GetBlocksParams ==
    /\ res.state = "none"
    /\ \E e \in Envs(req) :
          /\ env' = e
          /\ res' = SortSwap(AscendingRange(req, e), req.sort)
    /\ UNCHANGED <<req, poolVars, fetchVars, feeVars, streamVars>>

RangeNext == GetBlocksParams

RangeSpec == RangeInit /\ [][RangeNext]_vars

(***************************************************************************)
(* getBlocks and getTransaction                                            *)
(***************************************************************************)
\* The pool is left out of these two operations: the handle getWeb3 hands
\* them answers for the chain, whose latest block is at height head.

\* _.range(start, end) of lodash: the step is 1 when start < end and -1
\* otherwise, and end is excluded.
LodashRange(start, end) ==
    IF start < end
    THEN [k \in 1..(end - start) |-> start + (k - 1)]
    ELSE [k \in 1..(start - end) |-> start - (k - 1)]

\* One element of a result: a block as web3 returns it ("raw"), null for a
\* height the chain does not have, a canonical record, or the TypeError of a
\* transform. derived: the confirmations were computed from the height.
Rec(kind, height, hasConf, confirmations, derived) ==
    [kind |-> kind, height |-> height, hasConf |-> hasConf,
     confirmations |-> confirmations, derived |-> derived]

\* web3.eth.getBlock(n).
RawBlock(n, chainHead) ==
    IF 0 <= n /\ n <= chainHead THEN Rec("raw", n, FALSE, 0, FALSE)
    ELSE Rec("null", n, FALSE, 0, FALSE)

\* Lines 207-216.
BlockTransform(block, tipHeight) ==
    IF block.kind = "null" THEN Rec("TypeError", block.height, FALSE, 0, FALSE)
    ELSE IF block.height >= 0
    THEN Rec("canonical", block.height, TRUE, tipHeight - block.height + 1, TRUE)
    ELSE Rec("canonical", block.height, TRUE, 0, FALSE)

\* Lines 263-277, for a transaction found in block blockNumber; -1 is the
\* null block number of a pending transaction.
TransactionRecord(blockNumber, tipHeight) ==
    IF blockNumber # -1 /\ blockNumber # 0 /\ blockNumber >= 0
    THEN Rec("canonical", blockNumber, TRUE, tipHeight - blockNumber + 1, TRUE)
    ELSE Rec("canonical", blockNumber, TRUE, 0, FALSE)

FetchLimits == {l \in Limits : l > 0}

FetchRequests ==
    [hasChainNet : {TRUE},
     blockId : {<<>>, <<"2">>, <<"1", "a">>},
     sinceBlock : {<<>>, <<"0">>, <<"1">>, <<"2">>},
     dateSel : {"none"}, hasLimit : {TRUE}, limit : FetchLimits, sort : Sorts]
    \cup
    [hasChainNet : {TRUE},
     blockId : {<<>>, <<"2">>, <<"1", "a">>},
     sinceBlock : {<<>>, <<"0">>, <<"1">>, <<"2">>},
     dateSel : {"none"}, hasLimit : {FALSE}, limit : {0}, sort : Sorts]
    \cup {NoReq}

FetchInit ==
    /\ head \in 1..(MaxHead - 1)
    /\ \/ /\ req \in FetchRequests
          /\ fetch = [NoFetch EXCEPT !.op = "getBlocks"]
       \/ /\ req \in {NoReq, [NoReq EXCEPT !.hasChainNet = TRUE]}
          /\ \E ok \in BOOLEAN :
                fetch = [NoFetch EXCEPT !.op = "getTransaction", !.txIdOk = ok]
    /\ env = NoEnv
    /\ res = NoRes
    /\ handles = <<>> /\ rpcs = <<>> /\ rpcs0 = <<>>
    /\ calls = [c \in Callers |-> IdleCall]
    /\ removed = NoSplice
    /\ FeeIdle
    /\ StreamIdle

\* Lines 239-242 and 255-258: the catch block logs and the call returns
\* undefined.
Caught(f) == [f EXCEPT !.pc = "done", !.outcome = "undefined", !.logged = TRUE]

\* Lines 201-203: getBlocksParams; its tip lookup answers with the head.
GetBlocksResolve ==
    /\ fetch.op = "getBlocks" /\ fetch.pc = "idle"
    /\ LET e == [NoEnv EXCEPT !.tipHeight =
                    IF NeedsTip(BoundsBeforeTip(req, NoEnv)) THEN head ELSE 0]
           r == SortSwap(AscendingRange(req, e), req.sort)
       IN  /\ env' = e
           /\ res' = r
           /\ fetch' = IF r.state = "ok" THEN [fetch EXCEPT !.pc = "tip"]
                       ELSE Caught(fetch)
    /\ UNCHANGED <<req, head, poolVars, feeVars, streamVars>>

\* Lines 246-250.
GetTransactionStart ==
    /\ fetch.op = "getTransaction" /\ fetch.pc = "idle"
    /\ fetch' = IF fetch.txIdOk /\ req.hasChainNet
                THEN [fetch EXCEPT !.pc = "tip"]
                ELSE Caught(fetch)
    /\ UNCHANGED <<rangeVars, head, poolVars, feeVars, streamVars>>

\* Lines 204-206 and 251-253: the tip is fetched and its height kept.
FetchTip ==
    /\ fetch.pc = "tip"
    /\ fetch' = [fetch EXCEPT !.pc = "fetch", !.tipHeight = head]
    /\ UNCHANGED <<rangeVars, head, poolVars, feeVars, streamVars>>

\* Lines 218-238: the batch is built and executed. With every request
\* answered the value of Promise.all passes through then(), whose argument
\* is an array and no function, so the raw blocks are returned and the
\* transformed ones are dropped; with a request failed, catch returns the
\* error as the value.
GetBlocksBatch ==
    /\ fetch.op = "getBlocks" /\ fetch.pc = "fetch"
    /\ LET numbers == LodashRange(res.startBlock, res.endBlock + 1)
           raw == [k \in 1..Len(numbers) |-> RawBlock(numbers[k], head)]
           out == [k \in 1..Len(numbers) |-> BlockTransform(raw[k], fetch.tipHeight)]
       IN  \/ fetch' = [fetch EXCEPT !.pc = "done", !.requested = numbers,
                            !.transformed = out, !.ret = raw, !.outcome = "list"]
           \/ /\ Len(numbers) > 0
              /\ fetch' = [fetch EXCEPT !.pc = "done", !.requested = numbers,
                            !.outcome = "error"]
    /\ UNCHANGED <<rangeVars, head, poolVars, feeVars, streamVars>>

\* Lines 254 and 261-280: the transaction is absent, pending, or in a block
\* of the chain as it is now; or the node fails and the catch block logs.
GetTransactionFetch ==
    /\ fetch.op = "getTransaction" /\ fetch.pc = "fetch"
    /\ \/ fetch' = [fetch EXCEPT !.pc = "done", !.outcome = "undefined"]
       \/ \E b \in (0 - 1)..head :
             fetch' = [fetch EXCEPT !.pc = "done", !.outcome = "transaction",
                          !.ret = <<TransactionRecord(b, fetch.tipHeight)>>]
       \/ fetch' = Caught(fetch)
    /\ UNCHANGED <<rangeVars, head, poolVars, feeVars, streamVars>>

\* The chain grows by a block while a call is under way.
ChainAdvance ==
    /\ fetch.pc \in {"tip", "fetch"}
    /\ head < MaxHead
    /\ head' = head + 1
    /\ UNCHANGED <<fetch, rangeVars, poolVars, feeVars, streamVars>>

FetchNext ==
    \/ GetBlocksResolve
    \/ GetTransactionStart
    \/ FetchTip
    \/ GetBlocksBatch
    \/ GetTransactionFetch
    \/ ChainAdvance

FetchSpec == FetchInit /\ [][FetchNext]_vars

(***************************************************************************)
(* getFee                                                                  *)
(***************************************************************************)
MaxFee == 2
MaxWindow == 4
DefaultTarget == 4
MaxQuartile == 4

\* reward[i][0], the 25th percentile priority fee of block i, and
\* baseFeePerGas[i], which is 0 for a block before the fee market.
Fees == 0..MaxFee
BaseFees == {0, 1}
Targets == (0 - 1)..(MaxQuartile + 1)

\* A comparator that orders the other way round.
CompareAscending(a, b) == IF a < b THEN 0 - 1 ELSE IF a > b THEN 1 ELSE 0

\* Line 192: the comparator handed to Array.prototype.sort.
Compare(a, b) == IF a < b THEN 1 ELSE IF a > b THEN 0 - 1 ELSE 0

\* Array.prototype.sort with that comparator: a stable sort, x is placed
\* behind every element of s that the comparator does not put after it.
RECURSIVE Insert(_, _)
Insert(x, s) ==
    IF s = <<>> THEN <<x>>
    ELSE IF Compare(Head(s), x) <= 0 THEN <<Head(s)>> \o Insert(x, Tail(s))
    ELSE <<x>> \o s

RECURSIVE Sort(_)
Sort(s) ==
    IF s = <<>> THEN <<>>
    ELSE Insert(s[Len(s)], Sort(SubSeq(s, 1, Len(s) - 1)))

\* Lines 184-190.
GasPrices(baseFeePerGas, reward) ==
    LET length == IF Len(baseFeePerGas) < Len(reward)
                  THEN Len(baseFeePerGas) ELSE Len(reward)
    IN  [i \in 1..length |-> baseFeePerGas[i] + reward[i]]

\* Line 179: let { target = 4 } = params.
TargetOf(f) == IF f.hasTarget THEN f.target ELSE DefaultTarget

\* Line 193: Math.min(target, 4) || 1.
WhichQuartile(target) ==
    LET m == IF target < MaxQuartile THEN target ELSE MaxQuartile
    IN  IF m = 0 THEN 1 ELSE m

\* StatsUtil.getNthQuartileMedian: the sample at the n-th quarter boundary
\* of the sorted sequence, the last sample for n = 4; no sample for an
\* empty sequence or an n outside 1..4.
HasQuartile(prices, n) == prices # <<>> /\ n \in 1..MaxQuartile
QuartilePosition(length, n) == (n * length + (MaxQuartile - 1)) \div MaxQuartile
NthQuartileMedian(prices, n) == prices[QuartilePosition(Len(prices), n)]

\* Line 195: Number(quartileMedian.toString()).
Feerate(prices, n) == NumberOf(ToString10(NthQuartileMedian(prices, n))).val

\* The base fees of n blocks: all before the fee market, all after it, or
\* changing from block to block.
BaseFeeHistories(n) ==
    {[i \in 1..n |-> 0], [i \in 1..n |-> 1], [i \in 1..n |-> i % 2]}

\* What getFeeHistory answers: a reward per block, and one base fee more
\* or one less than rewards.
FeeWindows ==
    UNION {{[baseFeePerGas |-> b, reward |-> r] :
                b \in UNION {BaseFeeHistories(n) : n \in {Len(r) - 1, Len(r) + 1} \cap Nat}} :
            r \in SeqsOver(Fees, MaxWindow)}

FeeInit ==
    /\ \E w \in FeeWindows :
          \/ \E t \in Targets :
                fee = [NoFee EXCEPT !.hasTarget = TRUE, !.target = t,
                          !.baseFeePerGas = w.baseFeePerGas, !.reward = w.reward]
          \/ fee = [NoFee EXCEPT !.baseFeePerGas = w.baseFeePerGas,
                       !.reward = w.reward]
    /\ handles = <<>> /\ rpcs = <<>> /\ rpcs0 = <<>>
    /\ calls = [c \in Callers |-> IdleCall]
    /\ removed = NoSplice
    /\ RangeIdle
    /\ FetchIdle
    /\ StreamIdle

\* Lines 178-198 with the fee history fetched.
GetFee ==
    /\ fee.pc = "idle"
    /\ LET gasPrices == Sort(GasPrices(fee.baseFeePerGas, fee.reward))
           target == TargetOf(fee)
           whichQuartile == WhichQuartile(target)
       IN  fee' = IF HasQuartile(gasPrices, whichQuartile)
                  THEN [fee EXCEPT !.pc = "done", !.gasPrices = gasPrices,
                           !.whichQuartile = whichQuartile,
                           !.outcome = "feerate",
                           !.feerate = Feerate(gasPrices, whichQuartile),
                           !.blocks = target]
                  ELSE [fee EXCEPT !.pc = "done", !.gasPrices = gasPrices,
                           !.whichQuartile = whichQuartile,
                           !.outcome = "error"]
    /\ UNCHANGED <<poolVars, rangeVars, fetchVars, streamVars>>

\* Lines 180-183: getWeb3, getBlockNumber or getFeeHistory rejects.
GetFeeRejected ==
    /\ fee.pc = "idle"
    /\ fee' = [fee EXCEPT !.pc = "done", !.outcome = "rejected"]
    /\ UNCHANGED <<poolVars, rangeVars, fetchVars, streamVars>>

FeeNext == GetFee \/ GetFeeRejected

FeeSpec == FeeInit /\ [][FeeNext]_vars

(***************************************************************************)
(* streamTransactions, streamAddressTransactions, streamWalletTransactions *)
(***************************************************************************)
MaxTxs == 2

\* The wallets under study own one or two addresses.
WalletSizes == {1, 2}

StreamOps ==
    {"streamTransactions", "streamAddressTransactions", "streamWalletTransactions"}

\* What the external API holds for address a: n transactions with ids of
\* their own, the k-th in block k.
History(a, n) == [k \in 1..n |-> [id |-> <<a, k>>, height |-> k]]

\* The transactions of the block streamTransactions selects, block 1.
BlockTransactions(n) == [k \in 1..n |-> [id |-> <<1, k>>, height |-> 1]]

Histories ==
    UNION {[1..size -> {History(1, n) : n \in 0..MaxTxs}
                        \cup {History(2, n) : n \in 0..MaxTxs}] :
            size \in WalletSizes}

WalletHistories ==
    {h \in Histories : \A a \in 1..Len(h) : \A k \in 1..Len(h[a]) : h[a][k].id[1] = a}

StreamInit ==
    /\ head \in MaxTxs..MaxHead
    /\ \/ \E n \in 0..MaxTxs :
             stream = [NoStream EXCEPT !.op = "streamTransactions",
                          !.sources = <<BlockTransactions(n)>>]
       \/ \E n \in 0..MaxTxs, token \in BOOLEAN :
             stream = [NoStream EXCEPT !.op = "streamAddressTransactions",
                          !.hasToken = token, !.sources = <<History(1, n)>>]
       \/ \E h \in WalletHistories, token \in BOOLEAN :
             stream = [NoStream EXCEPT !.op = "streamWalletTransactions",
                          !.hasWallet = TRUE, !.hasToken = token, !.sources = h]
       \/ stream = [NoStream EXCEPT !.op = "streamWalletTransactions"]
    /\ fetch = NoFetch
    /\ handles = <<>> /\ rpcs = <<>> /\ rpcs0 = <<>>
    /\ calls = [c \in Callers |-> IdleCall]
    /\ removed = NoSplice
    /\ RangeIdle
    /\ FeeIdle

\* Lines 305-308, 330-333 and 373-376: the catch block logs and rethrows.
Rethrown(s) == [s EXCEPT !.pc = "done", !.outcome = "thrown", !.logged = TRUE]

\* Lines 339-341: a wallet without _id throws before anything is awaited.
MissingWallet(s) == s.op = "streamWalletTransactions" /\ ~s.hasWallet

\* Lines 286-292, 314-319 and 338-343: the tip is fetched and its height
\* kept, or one of the awaited lookups rejects.
StreamTip ==
    /\ stream.op \in StreamOps /\ stream.pc = "idle"
    /\ \/ stream' = IF MissingWallet(stream) THEN Rethrown(stream)
                    ELSE [stream EXCEPT !.pc = "open", !.tipHeight = head]
       \/ /\ ~MissingWallet(stream)
          /\ stream' = Rethrown(stream)
    /\ UNCHANGED <<head, fetch, poolVars, rangeVars, feeVars>>

\* Line 299: a NodeQueryStream. Lines 320-326: the native or the token
\* transfer stream of the address. Lines 356-359: a native stream for each
\* wallet address. pos: how many records the stream has yielded.
Variant(s) ==
    IF s.op = "streamTransactions" THEN "node"
    ELSE IF s.op = "streamAddressTransactions" /\ s.hasToken THEN "token"
    ELSE "native"

StreamsOpened(s) ==
    [a \in 1..Len(s.sources) |-> [address |-> a, variant |-> Variant(s), pos |-> 0]]

\* Lines 293-301, 320-325 and 344-369: the source streams are opened and
\* piped, and onStream is awaited.
StreamOpen ==
    /\ stream.pc = "open"
    /\ stream' = [stream EXCEPT !.pc = "streaming", !.opened = StreamsOpened(stream)]
    /\ UNCHANGED <<head, fetch, poolVars, rangeVars, feeVars>>

\* An opened source stream yields its next record into the merged stream,
\* which takes one record at a time.
SourceEmit(j) ==
    /\ stream.pc = "streaming"
    /\ stream.merged = <<>>
    /\ LET o == stream.opened[j]
           history == stream.sources[o.address]
       IN  /\ o.pos < Len(history)
           /\ stream' = [stream EXCEPT !.merged = <<history[o.pos + 1]>>,
                                        !.opened[j].pos = o.pos + 1]
    /\ UNCHANGED <<head, fetch, poolVars, rangeVars, feeVars>>

\* Stage 1: ParseJsonStream.
ParseStage ==
    /\ stream.pc = "streaming"
    /\ stream.merged # <<>> /\ stream.parsed = <<>>
    /\ stream' = [stream EXCEPT !.parsed = stream.merged, !.merged = <<>>]
    /\ UNCHANGED <<head, fetch, poolVars, rangeVars, feeVars>>

\* Stage 2: PopulateReceiptTransform.
PopulateReceiptStage ==
    /\ stream.pc = "streaming"
    /\ stream.parsed # <<>> /\ stream.populated = <<>>
    /\ stream' = [stream EXCEPT !.populated = stream.parsed, !.parsed = <<>>]
    /\ UNCHANGED <<head, fetch, poolVars, rangeVars, feeVars>>

\* A tip height read again for every record.
CurrentTip(tipHeight, chainHead) == chainHead

\* Lines 292, 319 and 353: the tip height the records are annotated with is
\* the one kept in tipHeight / args.tipHeight.
CapturedTip(tipHeight, chainHead) == tipHeight

\* The record written for a transaction: _getTransaction (lines 263-277)
\* for a NodeQueryStream, the list schema with confirmations otherwise.
Annotated(tx, variant, tip) ==
    [id |-> tx.id, height |-> tx.height, variant |-> variant,
     confirmations |->
        IF variant = "node" THEN TransactionRecord(tx.height, tip).confirmations
        ELSE tip - tx.height + 1]

\* Stages 3 and 4: the record is projected and written to the response.
WriteStage ==
    /\ stream.pc = "streaming"
    /\ stream.populated # <<>>
    /\ stream' = [stream EXCEPT
          !.populated = <<>>,
          !.output = Append(stream.output,
                Annotated(stream.populated[1], Variant(stream),
                          CapturedTip(stream.tipHeight, head)))]
    /\ UNCHANGED <<head, fetch, poolVars, rangeVars, feeVars>>

\* A source or a stage errors: the stream is terminated, what is in flight
\* is dropped and what was written stays written.
StreamError ==
    /\ stream.pc = "streaming"
    /\ stream' = [stream EXCEPT !.pc = "ended", !.failed = TRUE,
                     !.merged = <<>>, !.parsed = <<>>, !.populated = <<>>,
                     !.flushed = stream.output]
    /\ UNCHANGED <<head, fetch, poolVars, rangeVars, feeVars>>

\* Every source has ended and every record has been written.
StreamEnd ==
    /\ stream.pc = "streaming"
    /\ \A j \in 1..Len(stream.opened) :
          stream.opened[j].pos = Len(stream.sources[stream.opened[j].address])
    /\ stream.merged = <<>> /\ stream.parsed = <<>> /\ stream.populated = <<>>
    /\ stream' = [stream EXCEPT !.pc = "ended", !.flushed = stream.output]
    /\ UNCHANGED <<head, fetch, poolVars, rangeVars, feeVars>>

\* Lines 301-304, 327-329 and 369-372: onStream resolves; a result with
\* success === false is logged, and the call returns.
OnStreamResolves ==
    /\ stream.pc = "ended"
    /\ stream' = [stream EXCEPT !.pc = "done", !.logged = stream.failed,
                     !.outcome = "resolved"]
    /\ UNCHANGED <<head, fetch, poolVars, rangeVars, feeVars>>

\* The chain grows by a block while the call is under way.
StreamChainAdvance ==
    /\ stream.pc \in {"open", "streaming"}
    /\ head < MaxHead
    /\ head' = head + 1
    /\ UNCHANGED <<stream, fetch, poolVars, rangeVars, feeVars>>

StreamNext ==
    \/ StreamTip
    \/ StreamOpen
    \/ \E j \in 1..Len(stream.opened) : SourceEmit(j)
    \/ ParseStage
    \/ PopulateReceiptStage
    \/ WriteStage
    \/ StreamError
    \/ StreamEnd
    \/ OnStreamResolves
    \/ StreamChainAdvance

StreamSpec == StreamInit /\ [][StreamNext]_vars

(***************************************************************************)
(* Claims on getWeb3                                                       *)
(***************************************************************************)
Unresponsive(h) == handles[h].health \in {"down", "hang"} /\ ~handles[h].reconn
Healthy(h) == handles[h].health = "up"
Returned(c) == calls[c].pc = "done"
Alone(c) == \A d \in Callers \ {c} : calls[d].pc = "idle"
Accepts(c, h) == IsValidProviderType(calls[c].type, handles[h].dataType)

\* C1: a single acquire on a pool holding one unresponsive handle and one
\* healthy handle, both of satisfying capability, removes the unresponsive
\* handle and returns the healthy registered handle. Stated on the insertion
\* order (unresponsive, healthy), handles 1 and 2 of the initial list.
C1_UnresponsiveRemovedHealthyReturned ==
    \A c \in Callers :
        (/\ Returned(c) /\ Alone(c)
         /\ rpcs0 = <<1, 2>>
         /\ Unresponsive(1) /\ Healthy(2)
         /\ Accepts(c, 1) /\ Accepts(c, 2))
        => (1 \notin SeqRange(rpcs) /\ calls[c].ret = 2)

\* C2: under concurrent acquire calls a catch block removes no handle other
\* than the one its own call just probed.
C2_RemovesOnlyProbedHandle ==
    removed.gone # 0 => removed.gone = removed.probed

\* C3: every acquire call that awaits a probe eventually returns a handle or
\* fails, also when the probe never resolves.
C3_AcquireReturns ==
    \A c \in Callers : (calls[c].pc = "probe") ~> (calls[c].pc \in {"done", "failed"})

\* C3 witness: a call has returned although every handle registered when it
\* started accepts its request type and never answers a probe.
C3_ReturnedPastHangingProbes ==
    \E c \in Callers :
        /\ Returned(c)
        /\ Len(rpcs0) >= 1
        /\ \A h \in SeqRange(rpcs0) :
              handles[h].health = "hang" /\ ~handles[h].reconn /\ Accepts(c, h)

(***************************************************************************)
(* Claims on getBlocksParams                                               *)
(***************************************************************************)
Resolved == res.state = "ok"
Since == NumberOf(req.sinceBlock).val
Asc == AscendingRange(req, env)

\* C4: with a since cursor S, any block height including 0, and limit L the
\* resolved range has startBlock = S and endBlock = S + L. Stated for calls
\* that give no block id and no numeric descending sort, with a positive limit.
C4_SinceRange ==
    (/\ Resolved /\ SinceGiven(req) /\ Since >= 0
     /\ req.blockId = <<>> /\ req.sort # "minusOne" /\ LimitOf(req) > 0)
    => (res.startBlock = Since /\ res.endBlock = Since + LimitOf(req))

\* C5: with a descending sort request the returned pair is the ascending
\* computation's pair swapped, and startBlock > endBlock. Stated for
\* ascending computations that span more than one height, none negative.
DescendingRequested == req.sort \in {"heightDesc", "minusOne"}

C5_DescendingSwapped ==
    (Resolved /\ DescendingRequested
     /\ 0 <= Asc.startBlock /\ Asc.startBlock < Asc.endBlock)
    => (/\ res.startBlock = Asc.endBlock
        /\ res.endBlock = Asc.startBlock
        /\ res.startBlock > res.endBlock)

\* C6 as claimed: a range returned when a limit is supplied, positive, zero
\* or negative, has endBlock - startBlock <= limit.
C6_SpanWithinAnyLimit ==
    (Resolved /\ req.hasLimit) => (res.endBlock - res.startBlock <= req.limit)

\* C6 as amended: a range returned when a positive limit is supplied and the
\* sort is not the number -1 (no swap) has endBlock - startBlock <= limit.
C6_SpanWithinPositiveLimit ==
    (Resolved /\ req.hasLimit /\ req.limit > 0 /\ req.sort # "minusOne")
    => (res.endBlock - res.startBlock <= req.limit)

\* C6 witness: a positive limit was supplied and the bounds computed from the
\* selectors spanned more than it, so that line 465 moved endBlock.
Unclamped == WithTip(BoundsBeforeTip(req, env), env.tipHeight)

C6_Clamped ==
    /\ Resolved /\ req.hasLimit /\ req.limit > 0 /\ req.sort # "minusOne"
    /\ Unclamped.startBlock > 0
    /\ Unclamped.endBlock - Unclamped.startBlock > req.limit
    /\ res.endBlock - res.startBlock = req.limit

\* The canonical decimal form of a height: digits only, no leading zero.
IsCanonicalHeight(s) ==
    /\ s # <<>>
    /\ \A k \in 1..Len(s) : IsDigit(s[k])
    /\ Len(s) > 1 => s[1] # "0"

\* C7: a block identifier shorter than 64 characters that is not the
\* canonical decimal form of a height is rejected with the validation error
\* and no range is returned.
C7_MalformedIdRejected ==
    (/\ res.state # "none" /\ req.hasChainNet
     /\ IsHeightId(req) /\ ~IsCanonicalHeight(req.blockId))
    => res.state = "invalid block id provided"

(***************************************************************************)
(* Claims on getBlocks and getTransaction                                  *)
(***************************************************************************)
ReturnedList == fetch.op = "getBlocks" /\ fetch.pc = "done" /\ fetch.outcome = "list"

\* C8: every record getBlocks returns for a block at height h <= t, t the
\* tip height fetched for the call, is a canonical block record carrying
\* confirmations = t - h + 1.
C8_ReturnedConfirmations ==
    ReturnedList =>
        \A k \in 1..Len(fetch.ret) :
            (fetch.ret[k].kind # "null" /\ fetch.ret[k].height <= fetch.tipHeight)
            => (/\ fetch.ret[k].kind = "canonical"
                /\ fetch.ret[k].hasConf
                /\ fetch.ret[k].confirmations =
                        fetch.tipHeight - fetch.ret[k].height + 1)

\* The heights from startBlock to endBlock, both included, in that order.
Between(startBlock, endBlock) ==
    IF startBlock <= endBlock
    THEN [k \in 1..(endBlock - startBlock + 1) |-> startBlock + (k - 1)]
    ELSE [k \in 1..(startBlock - endBlock + 1) |-> startBlock - (k - 1)]

\* C9: for a resolved range, ascending or reversed, getBlocks requests and
\* returns one block for each height from startBlock to endBlock inclusive,
\* in that order.
C9_OneBlockPerHeight ==
    ReturnedList =>
        /\ fetch.requested = Between(res.startBlock, res.endBlock)
        /\ Len(fetch.ret) = Len(fetch.requested)
        /\ \A k \in 1..Len(fetch.ret) : fetch.ret[k].height = fetch.requested[k]

\* C10: no record is given a confirmations value computed from a block height
\* above the tip height captured for the operation, also when the chain has
\* advanced since the tip was fetched.
C10_NoConfirmationsAboveTip ==
    fetch.pc = "done" =>
        \A k \in 1..Len(fetch.ret) :
            fetch.ret[k].derived => fetch.ret[k].height <= fetch.tipHeight

\* What getTransaction returns for a well-formed txId that no transaction
\* matches (line 279, passed on by line 254).
NotFoundResult == "undefined"

\* C11: getTransaction with a missing chain or network or a txId that is no
\* string ends before the tip is fetched, and with an outcome the caller can
\* tell from the not-found result.
C11_ValidationDistinctFromNotFound ==
    (/\ fetch.op = "getTransaction" /\ fetch.pc = "done"
     /\ ~(fetch.txIdOk /\ req.hasChainNet))
    => (fetch.tipHeight = 0 /\ fetch.outcome # NotFoundResult)

\* C17: when a block request of the batch fails, getBlocks logs the failure
\* and its caller gets no list of blocks.
C17_BatchFailureLogged ==
    (fetch.op = "getBlocks" /\ fetch.pc = "done" /\ fetch.outcome = "error")
    => (fetch.logged /\ fetch.ret = <<>>)

(***************************************************************************)
(* Claims on the selector precedence of getBlocksParams                    *)
(***************************************************************************)
\* C18: a since cursor given together with a block identifier determines the
\* range, startBlock = since and endBlock = since + limit; the bounds are
\* the identifier's single height only when no since cursor is given. Stated
\* for cursors above 0, a positive limit, no date and no numeric descending
\* sort.
C18_SinceBeforeIdentifier ==
    (/\ Resolved /\ SinceGiven(req) /\ Since > 0
     /\ req.blockId # <<>> /\ req.dateSel = "none"
     /\ req.sort # "minusOne" /\ LimitOf(req) > 0)
    => (res.startBlock = Since /\ res.endBlock = Since + LimitOf(req))

\* C19: a canonical decimal block identifier h, 0 included, given with no
\* since cursor and no date resolves to startBlock = endBlock = h before the
\* swap, whatever the tip height.
C19_HeightIdBothBounds ==
    (/\ Resolved /\ IsHeightId(req) /\ IsCanonicalHeight(req.blockId)
     /\ ~SinceGiven(req) /\ req.dateSel = "none")
    => (/\ Asc.startBlock = ParseInt(req.blockId).val
        /\ Asc.endBlock = ParseInt(req.blockId).val)

\* No selector at all: no block id, no since cursor, no date.
NoSelector == req.blockId = <<>> /\ ~SinceGiven(req) /\ req.dateSel = "none"

\* C20: a range returned when descending order was not requested has
\* non-negative bounds with endBlock >= startBlock, and with no selector it
\* is endBlock = tip height, startBlock = endBlock - 1. Stated for the calls
\* that give no date and a positive limit, and whose tip lookup, if made,
\* answered a height above 0.
C20_ValidRange ==
    (/\ Resolved /\ req.sort = "one" /\ req.dateSel = "none" /\ LimitOf(req) > 0
     /\ (NeedsTip(BoundsBeforeTip(req, env)) => env.tipHeight > 0))
    => (/\ res.startBlock >= 0
        /\ res.endBlock >= res.startBlock
        /\ NoSelector =>
              (res.endBlock = env.tipHeight /\ res.startBlock = res.endBlock - 1))

(***************************************************************************)
(* Claims on getFee                                                        *)
(***************************************************************************)
Estimated == fee.pc = "done" /\ fee.outcome \in {"feerate", "error"}

\* The target clamped to [1, 4], 1 when missing, zero or negative.
ClampedTarget ==
    IF ~fee.hasTarget \/ fee.target <= 0 THEN 1
    ELSE IF fee.target > MaxQuartile THEN MaxQuartile
    ELSE fee.target

\* C12: the quartile getFee selects with is the target clamped to [1, 4],
\* and 1 when the target is missing, zero or negative.
C12_QuartileClamped == Estimated => fee.whichQuartile = ClampedTarget

SortedDescending(s) == \A i, j \in 1..Len(s) : i < j => s[i] >= s[j]
SameSamples(s, t) ==
    /\ Len(s) = Len(t)
    /\ \A v \in 0..(MaxFee + 1) :
          Cardinality({i \in 1..Len(s) : s[i] = v}) =
          Cardinality({i \in 1..Len(t) : t[i] = v})

\* C13: for a non-empty window the samples baseFeePerGas[i] + reward[i][0]
\* are sorted into descending order, and the feerate getFee returns does not
\* increase with the target: for 1 <= a < b <= 4, feerate(b) <= feerate(a).
C13_SortedAndMonotonic ==
    (Estimated /\ GasPrices(fee.baseFeePerGas, fee.reward) # <<>>)
    => (/\ SameSamples(fee.gasPrices, GasPrices(fee.baseFeePerGas, fee.reward))
        /\ SortedDescending(fee.gasPrices)
        /\ \A a, b \in 1..MaxQuartile :
              a < b => Feerate(fee.gasPrices, b) <= Feerate(fee.gasPrices, a)
        /\ (fee.hasTarget /\ fee.target \in 1..MaxQuartile) =>
              (/\ fee.outcome = "feerate"
               /\ fee.feerate = Feerate(fee.gasPrices, fee.target)))

\* C13 witness: a window of at least four samples that arrived unsorted, on
\* which target 4 returned a feerate below the one of target 1.
C13_LowerFeeForLaterTarget ==
    /\ Estimated /\ fee.outcome = "feerate"
    /\ fee.hasTarget /\ fee.target = MaxQuartile
    /\ Len(fee.gasPrices) >= 4
    /\ fee.gasPrices # GasPrices(fee.baseFeePerGas, fee.reward)
    /\ fee.feerate < Feerate(fee.gasPrices, 1)

(***************************************************************************)
(* Claims on the streams                                                   *)
(***************************************************************************)
Ids(records) == {records[k].id : k \in 1..Len(records)}
AllIds(sources) == UNION {Ids(sources[a]) : a \in 1..Len(sources)}
NoDuplicates(records) == Cardinality(Ids(records)) = Len(records)

RECURSIVE TotalLen(_)
TotalLen(sources) ==
    IF sources = <<>> THEN 0 ELSE Len(Head(sources)) + TotalLen(Tail(sources))

WalletStream == stream.op = "streamWalletTransactions" /\ stream.outcome # "thrown"

\* C14: streamWalletTransactions never writes a record twice; when its
\* source streams have yielded m and n transactions and none has failed it
\* has written exactly those m + n records, in every interleaving; and each
\* record's confirmations come from the one tip height kept before the
\* source streams were opened, also when the chain has grown since.
C14_MergedRecords ==
    WalletStream =>
        /\ NoDuplicates(stream.output)
        /\ Ids(stream.output) \subseteq AllIds(stream.sources)
        /\ \A k \in 1..Len(stream.output) :
              stream.output[k].confirmations =
                 stream.tipHeight - stream.output[k].height + 1
        /\ (stream.pc = "done" /\ ~stream.failed) =>
              (/\ Len(stream.output) = TotalLen(stream.sources)
               /\ Ids(stream.output) = AllIds(stream.sources))

\* C14 witness: a wallet of two addresses whose streams yielded 2 and 1
\* transactions, a record of the second address written before one of the
\* first, all 3 written, and the chain grown since the tip was kept.
C14_InterleavedAndTipMoved ==
    /\ WalletStream /\ stream.pc = "done" /\ ~stream.failed
    /\ Len(stream.sources) = 2
    /\ Len(stream.sources[1]) = 2 /\ Len(stream.sources[2]) = 1
    /\ Len(stream.output) = 3
    /\ stream.output[1].id[1] = 2
    /\ head > stream.tipHeight

\* C15: when a stage fails mid-stream, with records already written, the
\* error is logged, the call reports the failure to its caller, and the
\* records already written stay.
C15_MidStreamFailureReported ==
    (stream.pc = "done" /\ stream.failed /\ stream.flushed # <<>>)
    => (/\ stream.logged
        /\ stream.outcome = "thrown"
        /\ stream.output = stream.flushed)

\* C16: for a single address and for each address of a wallet exactly one
\* source stream is opened, and it is the token transfer stream whenever a
\* token contract address is given.
C16_OneStreamPerAddress ==
    (/\ stream.op \in {"streamAddressTransactions", "streamWalletTransactions"}
     /\ stream.pc \in {"streaming", "ended", "done"} /\ stream.outcome # "thrown")
    => (/\ \A a \in 1..Len(stream.sources) :
              Cardinality({j \in 1..Len(stream.opened) :
                              stream.opened[j].address = a}) = 1
        /\ stream.hasToken =>
              \A j \in 1..Len(stream.opened) : stream.opened[j].variant = "token")

(***************************************************************************)
(* Claims on the frame of getWeb3                                          *)
(***************************************************************************)
\* Position k of the registry as the call found it holds the first handle
\* that accepts the request type and answers its probe: every accepting
\* handle before it neither answers nor reconnects.
FirstResponsive(c, k) ==
    /\ Accepts(c, rpcs0[k]) /\ Healthy(rpcs0[k])
    /\ \A m \in 1..(k - 1) : Accepts(c, rpcs0[m]) => Unresponsive(rpcs0[m])

\* C21: a single acquire returns the first registered handle of satisfying
\* capability that responds in time; the handles after it and the handles
\* that do not satisfy the request stay in the pool, no new connection is
\* made, and the pool is unchanged when no satisfying handle precedes it.
C21_FirstResponsiveReturned ==
    \A c \in Callers : \A k \in 1..Len(rpcs0) :
        (Returned(c) /\ Alone(c) /\ FirstResponsive(c, k))
        => (/\ calls[c].ret = rpcs0[k]
            /\ Len(handles) = Len(rpcs0)
            /\ \A m \in (k + 1)..Len(rpcs0) : rpcs0[m] \in SeqRange(rpcs)
            /\ \A m \in 1..Len(rpcs0) :
                  ~Accepts(c, rpcs0[m]) => rpcs0[m] \in SeqRange(rpcs)
            /\ (\A m \in 1..(k - 1) : ~Accepts(c, rpcs0[m])) => rpcs = rpcs0)

(***************************************************************************)
(* Claims on getTransaction                                                *)
(***************************************************************************)
FoundTransaction ==
    fetch.op = "getTransaction" /\ fetch.pc = "done" /\ fetch.outcome = "transaction"

\* C22: a transaction getTransaction finds in a block at height h with
\* 0 <= h <= t, t the tip height fetched for the call, is returned with
\* confirmations = t - h + 1; the not-found result carries no record.
C22_TransactionConfirmations ==
    /\ FoundTransaction =>
          \A k \in 1..Len(fetch.ret) :
              (0 <= fetch.ret[k].height /\ fetch.ret[k].height <= fetch.tipHeight)
              => (/\ fetch.ret[k].hasConf
                  /\ fetch.ret[k].confirmations =
                        fetch.tipHeight - fetch.ret[k].height + 1)
    /\ (fetch.op = "getTransaction" /\ fetch.pc = "done"
        /\ fetch.outcome = NotFoundResult) => fetch.ret = <<>>

(***************************************************************************)
(* Claims on concurrent getWeb3 calls                                      *)
(***************************************************************************)
Started(c) == calls[c].pc # "idle"
SameCapability ==
    \A c, d \in Callers : (Started(c) /\ Started(d)) => calls[c].type = calls[d].type

\* C23: from a registry without handles, concurrent acquire calls of one
\* capability, in any interleaving, leave at most one handle in the pool as
\* long as no probe has failed together with its reconnect: every call that
\* has returned has returned that one handle.
C23_OneHandleUnlessProbeFailed ==
    (rpcs0 = <<>> /\ SameCapability /\ removed = NoSplice)
    => (/\ Len(rpcs) <= 1
        /\ Len(handles) <= 1
        /\ \A c \in Callers : Returned(c) => rpcs = <<calls[c].ret>>)

\* C23 witness: every caller has returned, the later ones after probing the
\* handle the first one made, and the pool holds that handle alone.
C23_AllReturnedTheOneHandle ==
    /\ rpcs0 = <<>> /\ SameCapability /\ removed = NoSplice
    /\ \A c \in Callers : Returned(c) /\ calls[c].ret = 1
    /\ \A c \in Callers \ {1} : calls[c].i = 1
    /\ rpcs = <<1>>

====
